---- MODULE Spec2Model ----
(***************************************************************************)
(* The bomb-game virtual machine of adamyedidia/binary-bomb.                *)
(*                                                                         *)
(* Two variants of the BombGame component are modelled together:           *)
(*   "map"   - src/unnamed/part_000: sparse line->instruction store,       *)
(*             JUMP/CJUMP/COPY/TTRAVEL, 1-indexed, Step and Run controls.  *)
(*   "array" - src/src/BombGame.js: fixed array program, JMP/BEQ/BNE/BGT/  *)
(*             BLT/TTRAVEL, 0-indexed, Run control only.                   *)
(*                                                                         *)
(* JavaScript values are represented as follows.                           *)
(*   string   : a sequence of one-character strings, "15" is <<"1","5">>.  *)
(*   array    : a function on 0..n-1.                                      *)
(*   object   : a function on its set of keys (register names are strings, *)
(*              program lines and history times are integers).             *)
(*   operand  : [num, n, s]; a number literal has num = TRUE and value n,  *)
(*              a string token has num = FALSE and characters s.           *)
(* The source writes the inequality operator of CJUMP as the one-character *)
(* string U+2260; the model writes it as the string "!=".                  *)
(***************************************************************************)
EXTENDS Integers, Sequences, FiniteSets, TLC

VARIABLES
    variant,      \* "map" (part_000) or "array" (BombGame.js): which component runs
    level,        \* the level prop
    registers,    \* useState registers
    pc,           \* useState pc, when it holds a number
    pcNumeric,    \* whether pc holds a number (FALSE: undefined or a string that is no number)
    program,      \* useState program (map variant only)
    history,      \* useState history
    gameStatus,   \* useState gameStatus
    isRunning,    \* useState isRunning
    playerValue,  \* useState playerValue
    last,         \* the handler that ran last and the render state its closure read
    fault,        \* "TypeError" once a step() call threw, "none" otherwise
    timers,       \* the timeouts of the auto-run effect that are pending, each the
                  \* render state its step() closure reads
    nsteps,       \* number of step() calls since the last reset
    call          \* a call of a pure helper: its arguments and its result

vars == <<variant, level, registers, pc, pcNumeric, program, history, gameStatus,
          isRunning, playerValue, last, fault, timers, nsteps, call>>

gameVars == <<variant, level, registers, pc, pcNumeric, program, history, gameStatus,
              isRunning, playerValue, last, fault, timers, nsteps>>

-----------------------------------------------------------------------------
(* Bounds of the model.                                                    *)

\* step() calls explored after a reset
MaxSteps == 22
\* program lines 0 - NegKeys .. PosKeys of the stores given to the pure helpers
NegKeys == 2
PosKeys == 3

-----------------------------------------------------------------------------
(* JavaScript values.                                                      *)

\* Array literal [a, b, ...]: indices from 0.
Arr(s) == [i \in 0..(Len(s) - 1) |-> s[i + 1]]

\* arr.length
Length(arr) == Cardinality(DOMAIN arr)

\* obj[key] = val on a copy of obj
SetKey(obj, key, val) ==
    [k \in (DOMAIN obj) \cup {key} |-> IF k = key THEN val ELSE obj[k]]

Num(n) == [num |-> TRUE, n |-> n, s |-> <<>>]
Str(s) == [num |-> FALSE, n |-> 0, s |-> s]

\* The value undefined, as every use in the source coerces it: the string "undefined".
Undefined == Str(<<"u","n","d","e","f","i","n","e","d">>)

Digits == <<"0","1","2","3","4","5","6","7","8","9">>

IsDigit(c) == \E d \in 1..10 : Digits[d] = c

DigitVal(c) == (CHOOSE d \in 1..10 : Digits[d] = c) - 1

RECURSIVE NatToString(_)
NatToString(n) ==
    IF n < 10 THEN <<Digits[n + 1]>>
    ELSE NatToString(n \div 10) \o <<Digits[(n % 10) + 1]>>

\* String(n) for an integer n
NumberToString(n) == IF n < 0 THEN <<"-">> \o NatToString(0 - n) ELSE NatToString(n)

\* String(x) for an operand
ToStr(x) == IF x.num THEN NumberToString(x.n) ELSE x.s

RECURSIVE SkipSpaces(_)
SkipSpaces(s) ==
    IF Len(s) > 0 /\ Head(s) = " " THEN SkipSpaces(Tail(s)) ELSE s

\* The longest prefix of decimal digits of s, read as a number: [nan, v, any];
\* acc is the value read so far and any tells whether a digit was read.
RECURSIVE ReadDigits(_, _, _)
ReadDigits(s, acc, any) ==
    IF Len(s) > 0 /\ IsDigit(Head(s))
    THEN ReadDigits(Tail(s), (10 * acc) + DigitVal(Head(s)), TRUE)
    ELSE [nan |-> ~any, v |-> acc]

\* parseInt(x, 10): leading blanks, an optional sign, then digits up to the first
\* character that is no digit; NaN when there is no digit.
parseInt(x) ==
    LET t == SkipSpaces(ToStr(x))
        neg == Len(t) > 0 /\ Head(t) = "-"
        signed == Len(t) > 0 /\ Head(t) \in {"-", "+"}
        r == ReadDigits(IF signed THEN Tail(t) ELSE t, 0, FALSE)
    IN  [nan |-> r.nan, v |-> IF neg THEN 0 - r.v ELSE r.v]

-----------------------------------------------------------------------------
(* Instructions.                                                           *)

Instr(op, args) == [op |-> op, args |-> Arr(args)]

EMPTY == [op |-> "EMPTY", args |-> Arr(<<>>)]

\* instr.args[i]
Arg(instr, i) == IF i \in DOMAIN instr.args THEN instr.args[i] ELSE Undefined

RegA == <<"A">>
RegB == <<"B">>
RegT == <<"T">>

-----------------------------------------------------------------------------
(* Program store (src/unnamed/part_000).                                   *)

convertProgram(isArray, prog) ==
    IF isArray
    THEN [k \in {index + 1 : index \in DOMAIN prog} |-> prog[k - 1]]
    ELSE [k \in DOMAIN prog |-> prog[k]]

\* keys.sort((a, b) => a - b) of a set of numbers
RECURSIVE sortedKeys(_)
sortedKeys(S) ==
    IF S = {} THEN <<>>
    ELSE LET m == CHOOSE x \in S : \A y \in S : x <= y
         IN  <<m>> \o sortedKeys(S \ {m})

\* Faulty variant: a line equal to the target is not shifted.
shiftedKey_strict(key, target) == IF key > target THEN key + 1 ELSE key

\* The line an existing entry is written to by insertLine.
shiftedKey(key, target) == IF key >= target THEN key + 1 ELSE key

RECURSIVE insertLineLoop(_, _, _, _, _)
insertLineLoop(prog, target, keys, i, newProg) ==
    IF i > Len(keys) THEN newProg
    ELSE insertLineLoop(prog, target, keys, i + 1,
             SetKey(newProg, shiftedKey(keys[i], target), prog[keys[i]]))

\* Faulty variant: numeric jump targets at or beyond the inserted line are moved
\* with the lines.
insertLine_retarget(prog, target, newInstr) ==
    LET keys == sortedKeys(DOMAIN prog)
        newProg == insertLineLoop(prog, target, keys, 1, <<>>)
        at(instr) == IF instr.op = "JUMP" THEN 0 ELSE 3
        moved(instr) ==
            IF /\ instr.op \in {"JUMP", "CJUMP"}
               /\ at(instr) \in DOMAIN instr.args
               /\ instr.args[at(instr)].num
               /\ instr.args[at(instr)].n >= target
            THEN [instr EXCEPT !.args[at(instr)] = Num(@.n + 1)]
            ELSE instr
    IN  SetKey([k \in DOMAIN newProg |-> moved(newProg[k])], target, newInstr)

insertLine(prog, target, newInstr) ==
    LET keys == sortedKeys(DOMAIN prog)
        newProg == insertLineLoop(prog, target, keys, 1, <<>>)
    IN  SetKey(newProg, target, newInstr)

-----------------------------------------------------------------------------
(* Viewport (src/unnamed/part_000).                                        *)

\* { line: "...", instr: null }
GapEntry == [gap |-> TRUE, line |-> 0, instr |-> [op |-> "null", args |-> <<>>]]

LineEntry(line, instr) == [gap |-> FALSE, line |-> line, instr |-> instr]

\* Faulty variant: a single missing line is not marked.
isGap_wide(prev, cur) == cur - prev > 2

\* keys[i] - keys[i - 1] > 1
isGap(prev, cur) == cur - prev > 1

\* Faulty variant: the neighbours of stored lines are left out.
displayKeys_noNeighbours(prog, pc0) == (DOMAIN prog) \cup {pc0 - 1, pc0, pc0 + 1}

\* keysSet of getDisplayedProgram
displayKeys(prog, pc0) ==
    UNION {{num, num - 1, num + 1} : num \in DOMAIN prog} \cup {pc0 - 1, pc0, pc0 + 1}

RECURSIVE displayLoop(_, _, _, _)
displayLoop(prog, keys, i, displayLines) ==
    IF i > Len(keys) THEN displayLines
    ELSE LET gap == IF i > 1 /\ isGap(keys[i - 1], keys[i]) THEN <<GapEntry>> ELSE <<>>
             line == keys[i]
             instr == IF line \in DOMAIN prog THEN prog[line] ELSE EMPTY
         IN  displayLoop(prog, keys, i + 1,
                         displayLines \o gap \o <<LineEntry(line, instr)>>)

getDisplayedProgram(prog, pc0) ==
    displayLoop(prog, sortedKeys(displayKeys(prog, pc0)), 1, <<>>)

-----------------------------------------------------------------------------
(* Value resolver (identical in both variants).                            *)

getValue(arg, regs) ==
    IF arg.num THEN arg.n
    ELSE IF arg.s \in DOMAIN regs THEN regs[arg.s]
    ELSE LET num == parseInt(arg) IN IF num.nan THEN 0 ELSE num.v

-----------------------------------------------------------------------------
(* One step of the interpreter: the parts shared by both variants.         *)

\* Faulty variant: T is not incremented.
incrementT_none(regs) == regs

\* const newT = registers.T + 1; let newRegisters = { ...registers, T: newT };
incrementT(regs) == SetKey(regs, RegT, regs[RegT] + 1)

\* Faulty variant: the operands are read with T as it was before the increment.
execADD_oldT(instr, newRegisters) ==
    LET oldRegisters == SetKey(newRegisters, RegT, newRegisters[RegT] - 1)
        val1 == getValue(Arg(instr, 0), oldRegisters)
        val2 == getValue(Arg(instr, 1), oldRegisters)
        dest == ToStr(Arg(instr, 2))
    IN  SetKey(newRegisters, dest, val1 + val2)

\* case "ADD"
execADD(instr, newRegisters) ==
    LET val1 == getValue(Arg(instr, 0), newRegisters)
        val2 == getValue(Arg(instr, 1), newRegisters)
        dest == ToStr(Arg(instr, 2))
    IN  SetKey(newRegisters, dest, val1 + val2)

\* Faulty variant: the history is read at T before the increment.
execTTRAVEL_oldT(newRegisters, hist) ==
    LET travelTime == newRegisters[RegT] - 1
    IN  IF travelTime \in DOMAIN hist THEN hist[travelTime] ELSE newRegisters

\* Faulty variant: only T is taken from the history entry.
execTTRAVEL_noRestore(newRegisters, hist) ==
    LET travelTime == newRegisters[RegT]
    IN  IF travelTime \in DOMAIN hist
        THEN SetKey(newRegisters, RegT, hist[travelTime][RegT])
        ELSE newRegisters

\* case "TTRAVEL"
execTTRAVEL(newRegisters, hist) ==
    LET travelTime == newRegisters[RegT]
    IN  IF travelTime \in DOMAIN hist THEN hist[travelTime] ELSE newRegisters

\* Faulty variant: the previous history is not spread into the new one.
commitHistory_fresh(prevHistory, newRegisters) ==
    SetKey(<<>>, newRegisters[RegT], newRegisters)

\* Faulty variant: an existing entry is kept instead of overwritten.
commitHistory_keepFirst(prevHistory, newRegisters) ==
    IF newRegisters[RegT] \in DOMAIN prevHistory THEN prevHistory
    ELSE SetKey(prevHistory, newRegisters[RegT], newRegisters)

\* Faulty variant: the snapshot is filed under T as it was before the increment.
commitHistory_oldKey(prevHistory, newRegisters) ==
    SetKey(prevHistory, newRegisters[RegT] - 1, newRegisters)

\* setHistory((prevHistory) => ({ ...prevHistory, [newRegisters.T]: newRegisters }))
commitHistory(prevHistory, newRegisters) ==
    SetKey(prevHistory, newRegisters[RegT], newRegisters)

\* Faulty variant: DEFUSE loses and EXPLODE wins.
statusEffect_swapped(op) ==
    IF op = "DEFUSE" THEN "lost" ELSE IF op = "EXPLODE" THEN "won" ELSE "none"

\* case "DEFUSE": setGameStatus("won"); case "EXPLODE": setGameStatus("lost")
statusEffect(op) ==
    IF op = "DEFUSE" THEN "won" ELSE IF op = "EXPLODE" THEN "lost" ELSE "none"

-----------------------------------------------------------------------------
(* step() of the map variant (src/unnamed/part_000).                       *)

\* let newPC = pc + 1; terminal instructions do not advance
defaultPC(instr, pc0) == IF instr.op \in {"DEFUSE", "EXPLODE"} THEN pc0 ELSE pc0 + 1

\* the inner switch (operator) of case "CJUMP"
cjumpCondition(operator, leftValue, rightValue) ==
    IF operator.num THEN FALSE
    ELSE IF operator.s = <<"<">> THEN leftValue < rightValue
    ELSE IF operator.s = <<">">> THEN leftValue > rightValue
    ELSE IF operator.s = <<"=">> THEN leftValue = rightValue
    ELSE IF operator.s = <<"!", "=">> THEN leftValue # rightValue
    ELSE FALSE

\* Faulty variant: the target is used as written, as the array variant does.
jumpPC_raw(instr, newRegisters, newPC) ==
    IF instr.op = "JUMP" THEN Arg(instr, 0).n
    ELSE LET leftValue == getValue(Arg(instr, 0), newRegisters)
             operator == Arg(instr, 1)
             rightValue == getValue(Arg(instr, 2), newRegisters)
         IN  IF cjumpCondition(operator, leftValue, rightValue) THEN Arg(instr, 3).n
             ELSE newPC

\* newPC of case "JUMP" and case "CJUMP"
jumpPC(instr, newRegisters, newPC) ==
    IF instr.op = "JUMP" THEN getValue(Arg(instr, 0), newRegisters)
    ELSE LET leftValue == getValue(Arg(instr, 0), newRegisters)
             operator == Arg(instr, 1)
             rightValue == getValue(Arg(instr, 2), newRegisters)
             target == getValue(Arg(instr, 3), newRegisters)
         IN  IF cjumpCondition(operator, leftValue, rightValue) THEN target ELSE newPC

\* source in program ? program[source] : { op: "EMPTY", args: [] }
copyInstr(prog, source) == IF source \in DOMAIN prog THEN prog[source] ELSE EMPTY

\* Faulty variant: pc is not compensated when the line is inserted at or before it.
execCOPY_noCompensation(instr, newRegisters, pc0, prog, newPC) ==
    LET source == getValue(Arg(instr, 0), newRegisters)
        target == IF Length(instr.args) = 2 THEN getValue(Arg(instr, 1), newRegisters)
                  ELSE pc0 + 1
    IN  [program |-> insertLine(prog, target, copyInstr(prog, source)), pc |-> newPC]

\* Faulty variant: the single-operand form inserts at the line of the COPY itself.
execCOPY_atPC(instr, newRegisters, pc0, prog, newPC) ==
    LET source == getValue(Arg(instr, 0), newRegisters)
        target == IF Length(instr.args) = 2 THEN getValue(Arg(instr, 1), newRegisters)
                  ELSE pc0
    IN  [program |-> insertLine(prog, target, copyInstr(prog, source)),
         pc |-> IF Length(instr.args) = 2 /\ pc0 >= target THEN newPC + 1 ELSE newPC]

\* Faulty variant: a line inserted at the executing line itself is not compensated.
execCOPY_strict(instr, newRegisters, pc0, prog, newPC) ==
    LET source == getValue(Arg(instr, 0), newRegisters)
        target == IF Length(instr.args) = 2 THEN getValue(Arg(instr, 1), newRegisters)
                  ELSE pc0 + 1
    IN  [program |-> insertLine(prog, target, copyInstr(prog, source)),
         pc |-> IF Length(instr.args) = 2 /\ pc0 > target THEN newPC + 1 ELSE newPC]

\* case "COPY": the new program and the new pc
execCOPY(instr, newRegisters, pc0, prog, newPC) ==
    IF Length(instr.args) = 2
    THEN LET source == getValue(Arg(instr, 0), newRegisters)
             target == getValue(Arg(instr, 1), newRegisters)
         IN  [program |-> insertLine(prog, target, copyInstr(prog, source)),
              pc |-> IF pc0 >= target THEN newPC + 1 ELSE newPC]
    ELSE LET source == getValue(Arg(instr, 0), newRegisters)
             target == pc0 + 1
         IN  [program |-> insertLine(prog, target, copyInstr(prog, source)),
              pc |-> newPC]

\* Faulty variant: a missing line is a loss, as leaving the array is in BombGame.js.
fetch_explode(prog, pc0) ==
    IF pc0 \in DOMAIN prog THEN prog[pc0] ELSE [op |-> "EXPLODE", args |-> <<>>]

\* program[pc] || { op: "EMPTY", args: [] }
fetch(prog, pc0) == IF pc0 \in DOMAIN prog THEN prog[pc0] ELSE EMPTY

\* What step() computes from the render state (registers, pc, program, history).
step(regs, pc0, prog, hist) ==
    LET instr == fetch(prog, pc0)
        incremented == incrementT(regs)
        newPC == defaultPC(instr, pc0)
        copied == IF instr.op = "COPY"
                  THEN execCOPY(instr, incremented, pc0, prog, newPC)
                  ELSE [program |-> prog, pc |-> newPC]
        newRegisters ==
            IF instr.op = "ADD" THEN execADD(instr, incremented)
            ELSE IF instr.op = "TTRAVEL" THEN execTTRAVEL(incremented, hist)
            ELSE incremented
    IN  [instr |-> instr,
         executed |-> TRUE,
         threw |-> FALSE,
         registers |-> newRegisters,
         pc |-> IF instr.op \in {"JUMP", "CJUMP"} THEN jumpPC(instr, incremented, newPC)
                ELSE copied.pc,
         pcNumeric |-> TRUE,
         program |-> copied.program,
         history |-> commitHistory(hist, newRegisters),
         status |-> statusEffect(instr.op)]

-----------------------------------------------------------------------------
(* step() of the array variant (src/src/BombGame.js).                      *)

\* newRegisters[reg] <cmp> cmpVal of BEQ, BNE, BGT, BLT; a missing register is undefined
branchCondition(op, newRegisters, reg, cmpVal) ==
    IF reg \notin DOMAIN newRegisters THEN op = "BNE"
    ELSE IF op = "BEQ" THEN newRegisters[reg] = cmpVal
    ELSE IF op = "BNE" THEN newRegisters[reg] # cmpVal
    ELSE IF op = "BGT" THEN newRegisters[reg] > cmpVal
    ELSE newRegisters[reg] < cmpVal

\* The branch of JMP, BEQ, BNE, BGT, BLT is taken
branchTaken(instr, newRegisters) ==
    \/ instr.op = "JMP"
    \/ branchCondition(instr.op, newRegisters, ToStr(Arg(instr, 0)),
                       getValue(Arg(instr, 1), newRegisters))

\* The target operand of JMP, BEQ, BNE, BGT, BLT, used as it is written
rawTarget(instr) == IF instr.op = "JMP" THEN Arg(instr, 0) ELSE Arg(instr, 2)

\* Faulty variant: targets are read as 1-indexed line numbers.
branchPC_oneIndexed(instr, newRegisters, newPC) ==
    IF branchTaken(instr, newRegisters) THEN rawTarget(instr).n - 1 ELSE newPC

\* newPC of JMP, BEQ, BNE, BGT, BLT when it is a number
branchPC(instr, newRegisters, newPC) ==
    IF branchTaken(instr, newRegisters) THEN rawTarget(instr).n ELSE newPC

\* Whether newPC of JMP, BEQ, BNE, BGT, BLT is a number: a target that is missing
\* or a register name leaves pc undefined or a string (the levels modelled write
\* no target as a string of digits)
branchPCNumeric(instr, newRegisters) ==
    branchTaken(instr, newRegisters) => rawTarget(instr).num

outOfBounds(pc0, prog) == pc0 < 0 \/ pc0 >= Length(prog)

\* What step() computes from the render state; pcNum tells whether pc is a number.
\* With a pc that is no number both bounds tests are false and level.program[pc]
\* is undefined, so that reading instr.op throws before any state is set.
stepA(regs, pc0, pcNum, prog, hist) ==
    IF ~pcNum
    THEN [instr |-> EMPTY, executed |-> FALSE, threw |-> TRUE, registers |-> regs,
          pc |-> pc0, pcNumeric |-> pcNum, program |-> <<>>, history |-> hist,
          status |-> "none"]
    ELSE IF outOfBounds(pc0, prog)
    THEN [instr |-> EMPTY, executed |-> FALSE, threw |-> FALSE, registers |-> regs,
          pc |-> pc0, pcNumeric |-> pcNum, program |-> <<>>, history |-> hist,
          status |-> "lost"]
    ELSE
    LET instr == prog[pc0]
        incremented == incrementT(regs)
        newPC == pc0 + 1
        branches == instr.op \in {"JMP", "BEQ", "BNE", "BGT", "BLT"}
        newRegisters ==
            IF instr.op = "ADD" THEN execADD(instr, incremented)
            ELSE IF instr.op = "TTRAVEL" THEN execTTRAVEL(incremented, hist)
            ELSE incremented
    IN  [instr |-> instr,
         executed |-> TRUE,
         threw |-> FALSE,
         registers |-> newRegisters,
         pc |-> IF branches THEN branchPC(instr, incremented, newPC) ELSE newPC,
         pcNumeric |-> IF branches THEN branchPCNumeric(instr, incremented) ELSE TRUE,
         program |-> <<>>,
         history |-> commitHistory(hist, newRegisters),
         status |-> statusEffect(instr.op)]

-----------------------------------------------------------------------------
(* Levels.                                                                 *)

R(c) == Str(<<c>>)

Regs2(a, t) == (RegA :> a) @@ (RegT :> t)
Regs3(a, b, t) == (RegA :> a) @@ (RegB :> b) @@ (RegT :> t)

Level(id, isArray, prog, regs) ==
    [id |-> id, isArray |-> isArray, program |-> prog, initialRegisters |-> regs]

\* levels[0..3] of App in src/unnamed/part_000
Tutorial ==
    Level("tutorial", TRUE,
          Arr(<<Instr("CJUMP", <<R("A"), R("="), Num(5), Num(3)>>),
                Instr("EXPLODE", <<>>),
                Instr("DEFUSE", <<>>)>>),
          Regs2(0, 0))

Doubling ==
    Level("doubling", TRUE,
          Arr(<<Instr("CJUMP", <<R("A"), R("<"), Num(10), Num(8)>>),
                Instr("CJUMP", <<R("A"), R(">"), Num(50), Num(8)>>),
                Instr("CJUMP", <<R("T"), R(">"), Num(40), Num(8)>>),
                Instr("CJUMP", <<R("B"), R("="), R("A"), Num(7)>>),
                Instr("ADD", <<R("B"), R("B"), R("B")>>),
                Instr("JUMP", <<Num(3)>>),
                Instr("DEFUSE", <<>>),
                Instr("EXPLODE", <<>>)>>),
          Regs3(0, 1, 0))

Copying ==
    Level("copying", TRUE,
          Arr(<<Instr("JUMP", <<Num(5)>>),
                Instr("EXPLODE", <<>>),
                Instr("DEFUSE", <<>>),
                Instr("EXPLODE", <<>>),
                Instr("ADD", <<R("A"), R("B"), R("B")>>),
                Instr("COPY", <<R("B")>>),
                Instr("CJUMP", <<R("T"), R(">"), Str(<<"1", "5">>), Num(4)>>),
                Instr("JUMP", <<Num(5)>>)>>),
          Regs3(0, 1, 0))

MoreCopying ==
    Level("more_copying", TRUE,
          Arr(<<Instr("JUMP", <<Num(5)>>),
                Instr("EXPLODE", <<>>),
                Instr("DEFUSE", <<>>),
                Instr("EXPLODE", <<>>),
                Instr("ADD", <<R("A"), R("B"), R("B")>>),
                Instr("COPY", <<R("A"), R("B")>>),
                Instr("CJUMP", <<R("T"), R(">"), Str(<<"1", "5">>), Num(4)>>),
                Instr("JUMP", <<Num(5)>>)>>),
          Regs3(0, 2, 0))

\* A level that writes T through ADD and travels in time, with an unknown opcode.
TimeLoop ==
    Level("time_loop", TRUE,
          Arr(<<Instr("ADD", <<R("B"), Num(1), R("B")>>),
                Instr("TTRAVEL", <<>>),
                Instr("ADD", <<R("B"), R("A"), R("B")>>),
                Instr("ADD", <<R("T"), R("A"), R("T")>>),
                Instr("TTRAVEL", <<>>),
                Instr("FOO", <<R("A")>>),
                Instr("CJUMP", <<R("B"), R("<"), Num(3), Num(1)>>),
                Instr("DEFUSE", <<>>)>>),
          Regs3(0, 1, 0))

\* A level given as a sparse mapping, with a line below 1, missing lines, a missing
\* operand, a two-operand COPY whose target is the player's value and a jump
\* through a register.
Sparse ==
    Level("sparse", FALSE,
          ((0 - 1) :> Instr("EXPLODE", <<>>))
          @@ (1 :> Instr("ADD", <<R("B"), Num(1)>>))
          @@ (3 :> Instr("COPY", <<Num(0 - 1), R("A")>>))
          @@ (4 :> Instr("CJUMP", <<R("T"), Str(<<"!", "=">>), Num(3), R("B")>>))
          @@ (6 :> Instr("EMPTY", <<>>))
          @@ (7 :> Instr("DEFUSE", <<>>)),
          Regs3(0, 6, 0))

\* A level whose operands read T, name registers as targets or are missing.
Operands ==
    Level("operands", TRUE,
          Arr(<<Instr("ADD", <<R("T"), Num(0), R("B")>>),
                Instr("COPY", <<R("T"), R("A")>>),
                Instr("COPY", <<R("B")>>),
                Instr("CJUMP", <<R("T"), Str(<<">">>), Num(4), R("B")>>),
                Instr("JUMP", <<R("A")>>),
                Instr("JUMP", <<>>),
                Instr("DEFUSE", <<>>)>>),
          Regs3(0, 0, 0))

\* A level whose first instruction ends the game.
Instant == Level("instant", TRUE, Arr(<<Instr("DEFUSE", <<>>)>>), Regs2(0, 0))

\* The tutorial level with its comparison turned into not-equal, a COPY that
\* inserts at its own line and a TTRAVEL in a program that never writes T.
Unequal ==
    Level("unequal", TRUE,
          Arr(<<Instr("CJUMP", <<R("A"), Str(<<"!", "=">>), Num(5), Num(3)>>),
                Instr("COPY", <<Num(4), Num(2)>>),
                Instr("TTRAVEL", <<>>),
                Instr("DEFUSE", <<>>)>>),
          Regs3(0, 1, 0))

\* levels[0] of App in src/src/BombGame.js
DoublingA ==
    Level("doubling", TRUE,
          Arr(<<Instr("BLT", <<R("A"), Num(10), Num(7)>>),
                Instr("BGT", <<R("A"), Num(50), Num(7)>>),
                Instr("BGT", <<R("T"), Num(40), Num(7)>>),
                Instr("BEQ", <<R("B"), R("A"), Num(6)>>),
                Instr("ADD", <<R("B"), R("B"), R("B")>>),
                Instr("JMP", <<Num(2)>>),
                Instr("DEFUSE", <<>>),
                Instr("EXPLODE", <<>>)>>),
          Regs3(0, 1, 0))

\* An array level that writes T through ADD, travels in time and leaves the array.
TimeLoopA ==
    Level("time_loop", TRUE,
          Arr(<<Instr("ADD", <<R("B"), Num(1), R("B")>>),
                Instr("TTRAVEL", <<>>),
                Instr("ADD", <<R("B"), R("A"), R("B")>>),
                Instr("ADD", <<R("T"), R("A"), R("T")>>),
                Instr("TTRAVEL", <<>>),
                Instr("BNE", <<R("B"), Num(2), Num(7)>>),
                Instr("BEQ", <<R("A"), R("A"), Num(9)>>),
                Instr("FOO", <<>>),
                Instr("DEFUSE", <<>>)>>),
          Regs3(0, 1, 0))

\* An array level whose branch targets are negative, missing or a register name.
MalformedA ==
    Level("malformed", TRUE,
          Arr(<<Instr("ADD", <<R("B")>>),
                Instr("BLT", <<R("A"), Num(0), Num(0 - 1)>>),
                Instr("BEQ", <<R("A"), Num(5)>>),
                Instr("BGT", <<R("A"), Num(10), R("B")>>),
                Instr("JMP", <<>>)>>),
          Regs3(0, 1, 0))

MapLevels ==
    <<Tutorial, Doubling, Copying, MoreCopying, TimeLoop, Sparse, Operands, Instant,
      Unequal>>

ArrayLevels == <<DoublingA, TimeLoopA, MalformedA>>

LevelsOf(v) == IF v = "map" THEN MapLevels ELSE ArrayLevels

\* What the player types into the number input.
PlayerInputs == {<<"-", "4">>, <<"-", "2">>, <<"0">>, <<"5">>, <<"1", "6">>}

-----------------------------------------------------------------------------
(* The component's state.                                                  *)

NoCall == [fn |-> "none", prog |-> <<>>, n |-> 0, instr |-> EMPTY, out |-> <<>>]

\* The render state a handler's closure reads, with what the handler was.
Closure(kind, instr, executed) ==
    [kind |-> kind, instr |-> instr, executed |-> executed,
     registers |-> registers, pc |-> pc, program |-> program, history |-> history,
     gameStatus |-> gameStatus, isRunning |-> isRunning, fault |-> fault,
     timers |-> timers]

\* The state of one render that a step() closure reads
Render(regs, pc0, pcNum, prog, hist) ==
    [registers |-> regs, pc |-> pc0, pcNumeric |-> pcNum, program |-> prog,
     history |-> hist]

\* Faulty variant: the effect returns no cleanup.
cleanup_none(pending) == pending

\* return () => clearTimeout(timer)
cleanup(pending) == {}

\* The auto-run effect, run again after a render in which one of its dependencies
\* (isRunning, gameStatus, registers, pc, program; a setter given a new object
\* changes the dependency) changed: the previous cleanup, then a new timeout when
\* isRunning and gameStatus is running
autoRunEffect(pending, running, status, render) ==
    IF running /\ status = "running" THEN cleanup(pending) \cup {render}
    ELSE cleanup(pending)

\* useState(1) in part_000, useState(0) in BombGame.js
firstPC(v) == IF v = "map" THEN 1 ELSE 0

\* { ...level.initialRegisters, A: initialA }; the inputs modelled all parse
initRegs(lvl, newA) == SetKey(lvl.initialRegisters, RegA, parseInt(newA).v)

storeOf(v, lvl) == IF v = "map" THEN convertProgram(lvl.isArray, lvl.program) ELSE <<>>

\* The state after the component mounted with levels[0].
Mounted(v) ==
    LET lvl == LevelsOf(v)[1]
    IN  /\ variant = v
        /\ level = lvl
        /\ registers = initRegs(lvl, Num(lvl.initialRegisters[RegA]))
        /\ pc = firstPC(v)
        /\ pcNumeric = TRUE
        /\ fault = "none"
        /\ timers = {}
        /\ program = storeOf(v, lvl)
        /\ history = (0 :> initRegs(lvl, Num(lvl.initialRegisters[RegA])))
        /\ gameStatus = "waiting"
        /\ isRunning = FALSE
        /\ playerValue = Num(lvl.initialRegisters[RegA])
        /\ nsteps = 0
        /\ last = [kind |-> "mount", instr |-> EMPTY, executed |-> FALSE,
                   registers |-> lvl.initialRegisters, pc |-> firstPC(v),
                   program |-> storeOf(v, lvl),
                   history |-> (0 :> lvl.initialRegisters),
                   gameStatus |-> "waiting", isRunning |-> FALSE, fault |-> "none",
                   timers |-> {}]

Init == (\E v \in {"map", "array"} : Mounted(v)) /\ call = NoCall

\* Faulty variant: the program store is not restored.
Reset_keepProgram(lvl, newA, kind) ==
    /\ registers' = initRegs(lvl, newA)
    /\ pc' = firstPC(variant)
    /\ pcNumeric' = TRUE
    /\ fault' = "none"
    /\ program' = program
    /\ history' = (0 :> initRegs(lvl, newA))
    /\ gameStatus' = "waiting"
    /\ isRunning' = FALSE
    /\ nsteps' = 0
    /\ last' = Closure(kind, EMPTY, FALSE)
    /\ timers' = autoRunEffect(timers, isRunning', gameStatus',
                               Render(registers', pc', pcNumeric', program', history'))

\* resetGame of both variants: the state set from the level and the value for A
Reset(lvl, newA, kind) ==
    /\ registers' = initRegs(lvl, newA)
    /\ pc' = firstPC(variant)
    /\ pcNumeric' = TRUE
    /\ fault' = "none"
    /\ program' = storeOf(variant, lvl)
    /\ history' = (0 :> initRegs(lvl, newA))
    /\ gameStatus' = "waiting"
    /\ isRunning' = FALSE
    /\ nsteps' = 0
    /\ last' = Closure(kind, EMPTY, FALSE)
    /\ timers' = autoRunEffect(timers, isRunning', gameStatus',
                               Render(registers', pc', pcNumeric', program', history'))

\* The state updates queued by one call of step(), given what the handler set before.
Commit(r, kind, statusBefore, runningBefore, pending) ==
    /\ registers' = (IF r.executed THEN r.registers ELSE registers)
    /\ pc' = (IF r.executed THEN r.pc ELSE pc)
    /\ pcNumeric' = (IF r.executed THEN r.pcNumeric ELSE pcNumeric)
    /\ fault' = (IF r.threw THEN "TypeError" ELSE fault)
    /\ program' = (IF r.executed /\ variant = "map" THEN r.program ELSE program)
    /\ history' = (IF r.executed THEN commitHistory(history, r.registers) ELSE history)
    /\ gameStatus' = (IF r.threw THEN gameStatus
                      ELSE IF r.status = "none" THEN statusBefore ELSE r.status)
    /\ isRunning' = (IF r.threw THEN isRunning
                     ELSE IF r.status = "none" THEN runningBefore ELSE FALSE)
    /\ nsteps' = nsteps + 1
    /\ last' = Closure(kind, r.instr, r.executed)
    /\ timers' = (IF r.executed \/ gameStatus' # gameStatus \/ isRunning' # isRunning
                  THEN autoRunEffect(pending, isRunning', gameStatus',
                           Render(registers', pc', pcNumeric', program', history'))
                  ELSE pending)

-----------------------------------------------------------------------------
(* Handlers of the map variant (src/unnamed/part_000).                     *)

\* onChange of the number input: setPlayerValue(newVal); resetGame(newVal)
OnChangeA(v) ==
    /\ variant = "map"
    /\ playerValue' = Str(v)
    /\ Reset(level, Str(v), "onChange")
    /\ UNCHANGED <<variant, level, call>>

\* Reset Level button: resetGame(playerValue)
ResetLevel ==
    /\ variant = "map"
    /\ Reset(level, playerValue, "resetGame")
    /\ UNCHANGED <<variant, level, playerValue, call>>

\* useEffect on [level]: setPlayerValue(level.initialRegisters.A); resetGame(...)
LevelChange(i) ==
    /\ variant = "map"
    /\ MapLevels[i] # level
    /\ level' = MapLevels[i]
    /\ playerValue' = Num(MapLevels[i].initialRegisters[RegA])
    /\ Reset(MapLevels[i], Num(MapLevels[i].initialRegisters[RegA]), "levelChange")
    /\ UNCHANGED <<variant, call>>

\* Faulty variant: the Run button is never disabled.
runDisabled_never(status) == FALSE

\* disabled={gameStatus !== "waiting"} of the Run button
runDisabled(status) == status # "waiting"

\* Run button
Run ==
    /\ variant = "map"
    /\ ~runDisabled(gameStatus)
    /\ gameStatus' = "running"
    /\ isRunning' = TRUE
    /\ last' = Closure("run", EMPTY, FALSE)
    /\ timers' = autoRunEffect(timers, TRUE, "running",
                               Render(registers, pc, pcNumeric, program, history))
    /\ UNCHANGED <<variant, level, registers, pc, pcNumeric, program, history,
                   playerValue, fault, nsteps, call>>

\* A pending timeout of the auto-run effect expires: step() runs on the render
\* state of its closure
TimerStepWithin(budget) ==
    /\ variant = "map"
    /\ nsteps < budget
    /\ \E t \in timers :
           Commit(step(t.registers, t.pc, t.program, t.history), "timerStep",
                  gameStatus, isRunning, timers \ {t})
    /\ UNCHANGED <<variant, level, playerValue, call>>

\* Faulty variant: the Step button is never disabled.
stepDisabled_never(status) == FALSE

\* disabled={gameStatus === "won" || gameStatus === "lost"} of the Step button
stepDisabled(status) == status = "won" \/ status = "lost"

\* Faulty variant: the Step button leaves auto-run as it is.
manualStepIsRunning_kept(running) == running

\* setIsRunning(false) of manualStep
manualStepIsRunning(running) == FALSE

\* Step button
manualStepWithin(budget) ==
    /\ variant = "map"
    /\ ~stepDisabled(gameStatus)
    /\ nsteps < budget
    /\ Commit(step(registers, pc, program, history), "manualStep", "running",
              manualStepIsRunning(isRunning), timers)
    /\ UNCHANGED <<variant, level, playerValue, call>>

-----------------------------------------------------------------------------
(* Handlers of the array variant (src/src/BombGame.js).                    *)

\* onChange of the number input: setPlayerValue(e.target.value)
SetPlayerValueA(v) ==
    /\ variant = "array"
    /\ playerValue # Str(v)
    /\ playerValue' = Str(v)
    /\ last' = Closure("setPlayerValue", EMPTY, FALSE)
    /\ UNCHANGED <<variant, level, registers, pc, pcNumeric, program, history,
                   gameStatus, isRunning, fault, timers, nsteps, call>>

\* Reset Level button
resetGameA ==
    /\ variant = "array"
    /\ Reset(level, playerValue, "resetGame")
    /\ UNCHANGED <<variant, level, playerValue, call>>

\* useEffect on [level]
LevelChangeA(i) ==
    /\ variant = "array"
    /\ ArrayLevels[i] # level
    /\ level' = ArrayLevels[i]
    /\ playerValue' = Num(ArrayLevels[i].initialRegisters[RegA])
    /\ registers' = ArrayLevels[i].initialRegisters
    /\ pc' = 0
    /\ pcNumeric' = TRUE
    /\ fault' = "none"
    /\ history' = (0 :> ArrayLevels[i].initialRegisters)
    /\ gameStatus' = "waiting"
    /\ isRunning' = FALSE
    /\ nsteps' = 0
    /\ last' = Closure("levelChange", EMPTY, FALSE)
    /\ timers' = autoRunEffect(timers, FALSE, "waiting",
                               Render(registers', 0, TRUE, program, history'))
    /\ UNCHANGED <<variant, program, call>>

\* Run button, disabled unless gameStatus is waiting
runGame ==
    /\ variant = "array"
    /\ gameStatus = "waiting"
    /\ gameStatus' = "running"
    /\ isRunning' = TRUE
    /\ last' = Closure("run", EMPTY, FALSE)
    /\ timers' = autoRunEffect(timers, TRUE, "running",
                               Render(registers, pc, pcNumeric, program, history))
    /\ UNCHANGED <<variant, level, registers, pc, pcNumeric, program, history,
                   playerValue, fault, nsteps, call>>

\* A pending timeout of the auto-run effect expires; after a step() call threw no
\* state changed, the effect does not run again and no timeout is pending
TimerStepAWithin(budget) ==
    /\ variant = "array"
    /\ nsteps < budget
    /\ \E t \in timers :
           Commit(stepA(t.registers, t.pc, t.pcNumeric, level.program, t.history),
                  "timerStep", gameStatus, isRunning, timers \ {t})
    /\ UNCHANGED <<variant, level, playerValue, call>>

-----------------------------------------------------------------------------

\* The step handlers within the number of step() calls explored per game
TimerStep == TimerStepWithin(MaxSteps)
manualStep == manualStepWithin(MaxSteps)
TimerStepA == TimerStepAWithin(MaxSteps)

Next ==
    \/ \E v \in PlayerInputs : OnChangeA(v)
    \/ ResetLevel
    \/ \E i \in 1..Len(MapLevels) : LevelChange(i)
    \/ Run
    \/ TimerStep
    \/ manualStep
    \/ \E v \in PlayerInputs : SetPlayerValueA(v)
    \/ resetGameA
    \/ \E i \in 1..Len(ArrayLevels) : LevelChangeA(i)
    \/ runGame
    \/ TimerStepA

Spec == Init /\ [][Next]_vars

-----------------------------------------------------------------------------
(* The doubling level played with every value of a range.                  *)

\* The values for A are -BelowZero..MaxA; a game is followed for up to
\* MaxDoublingSteps calls of step()
BelowZero == 5
MaxA == 60
MaxDoublingSteps == 50

\* What the player types for the value a
DoublingInputs == {NumberToString(a) : a \in (0 - BelowZero)..MaxA}

\* The state after the doubling level was loaded and the value typed was applied
\* by resetGame
InitDoubling ==
    \E v \in {"map", "array"}, typed \in DoublingInputs :
        LET lvl == IF v = "map" THEN Doubling ELSE DoublingA
        IN  /\ variant = v
            /\ level = lvl
            /\ playerValue = Str(typed)
            /\ registers = initRegs(lvl, Str(typed))
            /\ pc = firstPC(v)
            /\ pcNumeric = TRUE
            /\ fault = "none"
            /\ timers = {}
            /\ program = storeOf(v, lvl)
            /\ history = (0 :> initRegs(lvl, Str(typed)))
            /\ gameStatus = "waiting"
            /\ isRunning = FALSE
            /\ nsteps = 0
            /\ last = [kind |-> "resetGame", instr |-> EMPTY, executed |-> FALSE,
                       registers |-> lvl.initialRegisters, pc |-> firstPC(v),
                       program |-> storeOf(v, lvl),
                       history |-> (0 :> lvl.initialRegisters),
                       gameStatus |-> "waiting", isRunning |-> FALSE,
                       fault |-> "none", timers |-> {}]
            /\ call = NoCall

NextDoubling ==
    \/ Run
    \/ TimerStepWithin(MaxDoublingSteps)
    \/ manualStepWithin(MaxDoublingSteps)
    \/ runGame
    \/ TimerStepAWithin(MaxDoublingSteps)

SpecDoubling == InitDoubling /\ [][NextDoubling]_vars

-----------------------------------------------------------------------------
(* The pure helpers of part_000 applied to bounded arguments.              *)

KeyRange == (0 - NegKeys)..PosKeys

\* The instruction stored at line k: one per line, so that a moved line is recognised.
TagInstr(k) == Instr("JUMP", <<Num(k)>>)

FnStores == {[k \in S |-> TagInstr(k)] : S \in SUBSET KeyRange}

\* Targets of insertLine and program counters of getDisplayedProgram.
FnNumbers == (0 - NegKeys - 2)..(PosKeys + 3)

InitFn ==
    /\ Mounted("map")
    /\ \E prog \in FnStores, n \in FnNumbers :
           call = [fn |-> "args", prog |-> prog, n |-> n,
                   instr |-> Instr("DEFUSE", <<>>), out |-> <<>>]

CallInsertLine ==
    /\ call.fn = "args"
    /\ call' = [call EXCEPT !.fn = "insertLine",
                            !.out = insertLine(call.prog, call.n, call.instr)]
    /\ UNCHANGED gameVars

CallGetDisplayedProgram ==
    /\ call.fn = "args"
    /\ call' = [call EXCEPT !.fn = "getDisplayedProgram",
                            !.out = getDisplayedProgram(call.prog, call.n)]
    /\ UNCHANGED gameVars

NextFn == CallInsertLine \/ CallGetDisplayedProgram

SpecFn == InitFn /\ [][NextFn]_vars

-----------------------------------------------------------------------------
(* Claims about the pure helpers, checked under SpecFn.                    *)

\* C1: insertLine(prog, target, instr) returns a store R with R[target] = instr,
\* R[k+1] = prog[k] for every key k >= target, R[k] = prog[k] for every key
\* k < target, no other keys, and exactly one key more than prog.
C1_InsertLine ==
    call.fn = "insertLine" =>
        LET prog == call.prog
            target == call.n
            result == call.out
        IN  /\ target \in DOMAIN result
            /\ result[target] = call.instr
            /\ \A k \in DOMAIN prog :
                   IF k >= target
                   THEN (k + 1) \in DOMAIN result /\ result[k + 1] = prog[k]
                   ELSE k \in DOMAIN result /\ result[k] = prog[k]
            /\ DOMAIN result =
                   {target} \cup {k + 1 : k \in {x \in DOMAIN prog : x >= target}}
                            \cup {x \in DOMAIN prog : x < target}
            /\ Cardinality(DOMAIN result) = Cardinality(DOMAIN prog) + 1

\* An insertion at a line that is taken, in a sparse store with a negative key,
\* with lines below and above the target.
C1_Witness ==
    /\ call.fn = "insertLine"
    /\ call.n \in DOMAIN call.prog
    /\ \E k \in DOMAIN call.prog : k < 0 /\ k < call.n
    /\ \E k \in DOMAIN call.prog : k > call.n + 1
    /\ (call.n + 1) \notin DOMAIN call.prog

Retained(out) == SelectSeq(out, LAMBDA e : ~e.gap)

\* C8: in the output of getDisplayedProgram, between two retained lines a < b with
\* no retained line between them there is exactly one gap marker if b - a > 1 and
\* none if b - a = 1; no gap marker precedes the first or follows the last line.
C8_GapLaw ==
    call.fn = "getDisplayedProgram" =>
        LET out == call.out
        IN  /\ Len(out) > 0
            /\ ~out[1].gap
            /\ ~out[Len(out)].gap
            /\ \A i \in 1..Len(out) : \A j \in (i + 1)..Len(out) :
                   (/\ ~out[i].gap
                    /\ ~out[j].gap
                    /\ \A m \in (i + 1)..(j - 1) : out[m].gap)
                   => (j - i - 1) = (IF out[j].line - out[i].line > 1 THEN 1 ELSE 0)

\* An output with a gap marker and with two adjacent retained lines.
C8_Witness ==
    /\ call.fn = "getDisplayedProgram"
    /\ \E i \in 1..Len(call.out) : call.out[i].gap
    /\ \E i \in 1..(Len(call.out) - 1) :
           /\ ~call.out[i].gap
           /\ ~call.out[i + 1].gap
           /\ call.out[i + 1].line = call.out[i].line + 1
    /\ Cardinality(DOMAIN call.prog) >= 2

\* C9: the retained lines are exactly {k-1, k, k+1 : k a key of prog} and
\* {pc-1, pc, pc+1}, each once, strictly ascending; each carries prog[line] when
\* the line is a key and the synthetic EMPTY otherwise; at most 3 * (|prog| + 1).
C9_RetainedLines ==
    call.fn = "getDisplayedProgram" =>
        LET prog == call.prog
            ret == Retained(call.out)
            want == {k - 1 : k \in DOMAIN prog} \cup (DOMAIN prog)
                    \cup {k + 1 : k \in DOMAIN prog}
                    \cup {call.n - 1, call.n, call.n + 1}
        IN  /\ {ret[i].line : i \in 1..Len(ret)} = want
            /\ \A i \in 1..(Len(ret) - 1) : ret[i].line < ret[i + 1].line
            /\ \A i \in 1..Len(ret) :
                   ret[i].instr = (IF ret[i].line \in DOMAIN prog
                                   THEN prog[ret[i].line]
                                   ELSE [op |-> "EMPTY", args |-> <<>>])
            /\ DOMAIN prog \subseteq {ret[i].line : i \in 1..Len(ret)}
            /\ call.n \in {ret[i].line : i \in 1..Len(ret)}
            /\ Len(ret) <= 3 * (Cardinality(DOMAIN prog) + 1)

\* An output for a sparse store whose lines are all far from the pc: every stored
\* line is shown with both its absent neighbours, and the bound 3 * (|prog| + 1)
\* is met.
C9_Witness ==
    /\ call.fn = "getDisplayedProgram"
    /\ Cardinality(DOMAIN call.prog) = 2
    /\ Len(Retained(call.out)) = 9
    /\ \E i \in 1..Len(call.out) :
           ~call.out[i].gap /\ call.out[i].line \in DOMAIN call.prog
                            /\ call.out[i].instr = TagInstr(call.out[i].line)

-----------------------------------------------------------------------------
(* Claims about the interpreter and the session, checked under Spec.       *)

\* The last handler was a call of step() that executed an instruction; last holds
\* the state it read.
StepDone == last.kind \in {"timerStep", "manualStep"} /\ last.executed

Terminal(status) == status \in {"won", "lost"}

\* T after the increment in the step that ran last
NewT == last.registers[RegT] + 1

\* The registers after the increment in the step that ran last
Incremented == SetKey(last.registers, RegT, NewT)

AddToT(instr) == instr.op = "ADD" /\ ToStr(Arg(instr, 2)) = RegT

Restores == last.instr.op = "TTRAVEL" /\ NewT \in DOMAIN last.history

\* C2 as stated: every executed step leaves T = old T + 1, whatever the opcode and
\* the operands, unless it is a TTRAVEL step that restores a recorded snapshot.
C2_Original == StepDone => (registers[RegT] = NewT \/ Restores)

\* C2 as amended: every executed step leaves T = old T + 1 unless it is an ADD
\* whose destination is T, which leaves T = resolve(src1) + resolve(src2) read
\* with T already incremented, or a TTRAVEL step that restores a snapshot.
C2_TIncrement ==
    StepDone =>
        IF AddToT(last.instr)
        THEN registers[RegT] = getValue(Arg(last.instr, 0), Incremented)
                               + getValue(Arg(last.instr, 1), Incremented)
        ELSE registers[RegT] = NewT \/ Restores

\* An ADD into T, executed after three steps that each left T = old T + 1, that
\* moved T away from old T + 1.
C2_Witness ==
    /\ StepDone
    /\ AddToT(last.instr)
    /\ registers[RegT] # NewT
    /\ last.registers[RegT] = 3

\* C3: a step that executes DEFUSE sets status to won, one that executes EXPLODE
\* sets it to lost; while status is won or lost no step is executed, and registers,
\* pc, program and history stay as they are until a reset makes status waiting.
C3_Terminal ==
    [][/\ (StepDone' /\ last'.instr.op = "DEFUSE") => gameStatus' = "won"
       /\ (StepDone' /\ last'.instr.op = "EXPLODE") => gameStatus' = "lost"
       /\ Terminal(gameStatus) =>
              \/ /\ UNCHANGED <<registers, pc, program, history, gameStatus, nsteps>>
                 /\ last'.kind \notin {"timerStep", "manualStep"}
              \/ /\ gameStatus' = "waiting"
                 /\ last'.kind \in {"resetGame", "onChange", "levelChange"}]_vars

\* A DEFUSE executed by the Step button: status is won.
C3_Witness ==
    /\ StepDone
    /\ last.instr.op = "DEFUSE"
    /\ last.kind = "manualStep"
    /\ gameStatus = "won"

IsReset(kind) == kind \in {"resetGame", "onChange", "levelChange"}

\* C4 as stated: the history always has an entry at key 0, which a reset sets to
\* the initial snapshot of the new run and which no other handler changes.
C4_Original ==
    [][/\ 0 \in DOMAIN history'
       /\ IsReset(last'.kind) => history'[0] = registers'
       /\ ~IsReset(last'.kind) => history'[0] = history[0]]_vars

\* C4 as amended: the history always has an entry at key 0, which a reset sets to
\* the initial snapshot of the new run and which keeps that value until a step
\* commits a snapshot whose T is 0.
C4_EntryZero ==
    [][/\ 0 \in DOMAIN history'
       /\ IsReset(last'.kind) => history'[0] = registers'
       /\ (~IsReset(last'.kind) /\ ~(StepDone' /\ registers'[RegT] = 0))
              => history'[0] = history[0]]_vars

\* A step that committed a snapshot with T = 0 over the initial snapshot.
C4_Witness ==
    /\ StepDone
    /\ registers[RegT] = 0
    /\ history[0] = registers
    /\ history[0] # last.history[0]
    /\ last.history[0] = initRegs(level, playerValue)

\* C5: an executed step changes the history by one insert-or-overwrite: the entry
\* at the new T is the new snapshot, every other key keeps its snapshot, and no
\* key is lost.
C5_HistoryCommit ==
    StepDone =>
        /\ registers[RegT] \in DOMAIN history
        /\ history[registers[RegT]] = registers
        /\ DOMAIN history = (DOMAIN last.history) \cup {registers[RegT]}
        /\ \A k \in DOMAIN last.history :
               k # registers[RegT] => history[k] = last.history[k]

\* A step that overwrote an entry with a different snapshot.
C5_Witness ==
    /\ StepDone
    /\ registers[RegT] \in DOMAIN last.history
    /\ last.history[registers[RegT]] # registers
    /\ Cardinality(DOMAIN history) > 3

\* C6: a TTRAVEL step with no history entry at the incremented T leaves every
\* register but T unchanged and sets T to old T + 1.
C6_TravelNoEntry ==
    (StepDone /\ last.instr.op = "TTRAVEL" /\ NewT \notin DOMAIN last.history)
        => /\ DOMAIN registers = DOMAIN last.registers
           /\ \A r \in DOMAIN registers :
                  registers[r] = (IF r = RegT THEN NewT ELSE last.registers[r])

C6_Witness ==
    /\ StepDone
    /\ last.instr.op = "TTRAVEL"
    /\ NewT \notin DOMAIN last.history
    /\ registers[RegB] # 1

\* C7: a TTRAVEL step with a history entry at the incremented T replaces every
\* register, T included, by that entry's values and continues at pc + 1.
C7_TravelRestores ==
    (StepDone /\ Restores)
        => /\ registers = last.history[NewT]
           /\ pc = last.pc + 1

\* A restoring TTRAVEL that rewound register B.
C7_Witness ==
    /\ StepDone
    /\ Restores
    /\ registers[RegB] # last.registers[RegB]

InDoublingA(a) == variant = "array" /\ level = DoublingA /\ registers[RegA] = a

\* C10: the doubling level of the array variant. With A = 0 the first step
\* branches to line 7 and the second executes EXPLODE: lost. With A = 16, B is
\* 1, 2, 4, 8, 16 after 0..4 loop iterations, the BEQ of the 20th step branches to
\* line 6 and the 21st step wins with T = 21 and B = 16.
C10_Doubling ==
    /\ (InDoublingA(0) /\ nsteps = 1) => (pc = 7 /\ gameStatus = "running")
    /\ (InDoublingA(0) /\ nsteps >= 2) => (nsteps = 2 /\ gameStatus = "lost")
    /\ InDoublingA(16) =>
           /\ nsteps <= 21
           /\ gameStatus = "won" <=> nsteps = 21
           /\ gameStatus # "lost"
           /\ registers[RegT] = nsteps
           /\ nsteps = 2 => (registers[RegB] = 1 /\ pc = 2)
           /\ nsteps = 6 => (registers[RegB] = 2 /\ pc = 2)
           /\ nsteps = 10 => (registers[RegB] = 4 /\ pc = 2)
           /\ nsteps = 14 => (registers[RegB] = 8 /\ pc = 2)
           /\ nsteps = 18 => (registers[RegB] = 16 /\ pc = 2)
           /\ nsteps = 19 => pc = 3
           /\ nsteps = 20 => pc = 6
           /\ nsteps = 21 => (registers[RegT] = 21 /\ registers[RegB] = 16)

\* The run with A = 16 has won.
C10_Witness ==
    /\ InDoublingA(16)
    /\ gameStatus = "won"
    /\ StepDone
    /\ last.instr.op = "DEFUSE"

-----------------------------------------------------------------------------
(* COPY (src/unnamed/part_000).                                            *)

\* The step that ran last executed a COPY with n operands
CopyDone(n) ==
    /\ StepDone
    /\ variant = "map"
    /\ last.instr.op = "COPY"
    /\ (Length(last.instr.args) = 2) = (n = 2)

\* The operand i of the executed instruction, resolved with T already incremented
Resolved(i) == getValue(Arg(last.instr, i), Incremented)

\* The instruction at line src of the store before the step, EMPTY where absent
Copied(src) ==
    IF src \in DOMAIN last.program THEN last.program[src]
    ELSE [op |-> "EMPTY", args |-> <<>>]

\* The store is the store before the step with ins inserted at line tgt
InsertedAt(tgt, ins) ==
    /\ DOMAIN program =
           {tgt} \cup {IF k >= tgt THEN k + 1 ELSE k : k \in DOMAIN last.program}
    /\ program[tgt] = ins
    /\ \A k \in DOMAIN last.program :
           program[IF k >= tgt THEN k + 1 ELSE k] = last.program[k]

\* C11: a step executing the two-operand COPY(source, target) at line pc resolves
\* both operands with T already incremented, inserts at the resolved target the
\* instruction the store held at the resolved source before the step (EMPTY where
\* absent), and sets pc to pc + 2 when pc >= target and to pc + 1 otherwise.
C11_CopyTwoOperands ==
    CopyDone(2) =>
        /\ InsertedAt(Resolved(1), Copied(Resolved(0)))
        /\ pc = (IF last.pc >= Resolved(1) THEN last.pc + 2 ELSE last.pc + 1)

\* A two-operand COPY whose source is T and names the COPY itself only after the
\* increment, inserted at or before the executing line
C11_Witness ==
    /\ CopyDone(2)
    /\ ToStr(Arg(last.instr, 0)) = RegT
    /\ Copied(Resolved(0)) = last.instr
    /\ last.pc >= Resolved(1)
    /\ pc = last.pc + 2

\* C12: a step executing the single-operand COPY(source) at line pc inserts the
\* instruction at the resolved source (EMPTY where absent) at line pc + 1 and sets
\* pc to pc + 1 without compensation, so that pc names the inserted copy.
C12_CopyOneOperand ==
    CopyDone(1) =>
        /\ InsertedAt(last.pc + 1, Copied(Resolved(0)))
        /\ pc = last.pc + 1
        /\ pc \in DOMAIN program
        /\ program[pc] = Copied(Resolved(0))

\* A single-operand COPY of a line that is present and is not EMPTY, with a line
\* below it that had to move
C12_Witness ==
    /\ CopyDone(1)
    /\ Resolved(0) \in DOMAIN last.program
    /\ program[pc].op # "EMPTY"
    /\ last.pc + 1 \in DOMAIN last.program
    /\ program[pc] # last.program[last.pc + 1]

-----------------------------------------------------------------------------
(* Reset (both variants).                                                  *)

\* The level's program as the component holds it after loading the level
OriginalProgram ==
    IF variant = "array" THEN <<>>
    ELSE IF level.isArray
         THEN [k \in 1..Length(level.program) |-> level.program[k - 1]]
         ELSE level.program

\* C13: after a reset (Reset button, a new input value, a new level), whatever
\* the state before, the registers are the level's initial registers with A the
\* value given, pc is 1 (0 in the array variant), the program is the level's
\* original program, the history is {0: those registers}, the status is waiting
\* and auto-run is off.
C13_ResetFresh ==
    IsReset(last.kind) =>
        /\ DOMAIN registers = DOMAIN level.initialRegisters
        /\ \A r \in DOMAIN registers \ {RegA} : registers[r] = level.initialRegisters[r]
        /\ NumberToString(registers[RegA]) = ToStr(playerValue)
        /\ pc = (IF variant = "map" THEN 1 ELSE 0)
        /\ pcNumeric
        /\ program = OriginalProgram
        /\ history = (0 :> registers)
        /\ gameStatus = "waiting"
        /\ ~isRunning

\* A new input value given after a game was won with a program that had grown
C13_Witness ==
    /\ last.kind = "onChange"
    /\ last.gameStatus = "won"
    /\ last.program # program
    /\ last.pc # pc
    /\ last.registers[RegA] # registers[RegA]
    /\ Cardinality(DOMAIN last.history) > 1

-----------------------------------------------------------------------------
(* Program counter outside the program (both variants).                    *)

\* A step() call of the sparse-map variant found no line at pc
MissingLine ==
    /\ StepDone
    /\ variant = "map"
    /\ last.pc \notin DOMAIN last.program

\* A step() call of the array variant found pc outside the array
OutsideArray ==
    /\ last.kind = "timerStep"
    /\ variant = "array"
    /\ last.fault = "none"
    /\ (last.pc < 0 \/ last.pc >= Length(level.program))

\* C14: in the sparse-map variant a step at a pc that is no line of the store
\* (at or below 0, in a gap, beyond the last line) acts as EMPTY: T becomes T + 1,
\* pc becomes pc + 1, the registers are committed to the history, the store and
\* the other registers are unchanged and the status is not terminal; in the
\* array variant a step with pc < 0 or pc >= length sets the status to lost at once.
C14_OutsideProgram ==
    /\ MissingLine =>
           /\ registers = [r \in DOMAIN last.registers |->
                              IF r = RegT THEN last.registers[r] + 1
                              ELSE last.registers[r]]
           /\ pc = last.pc + 1
           /\ registers[RegT] \in DOMAIN history
           /\ history[registers[RegT]] = registers
           /\ program = last.program
           /\ gameStatus = "running"
    /\ OutsideArray =>
           /\ gameStatus = "lost"
           /\ ~isRunning
           /\ ~last.executed
           /\ registers = last.registers
           /\ pc = last.pc
           /\ history = last.history

\* A step of the sparse-map variant at a line at or below 0 that the store lacks
C14_Witness == MissingLine /\ last.pc <= 0

-----------------------------------------------------------------------------
(* Default program counter (both variants).                                *)

\* The executed instruction is a jump of either variant
Jumps == last.instr.op \in {"JUMP", "CJUMP", "JMP", "BEQ", "BNE", "BGT", "BLT"}

\* The executed instruction ends the game
Ends == last.instr.op \in {"DEFUSE", "EXPLODE"}

\* The executed instruction is a two-operand COPY inserting at or before its line
Compensated == CopyDone(2) /\ last.pc >= Resolved(1)

\* Every instruction that neither jumps nor ends the game nor is a compensated
\* COPY advances pc by one
Advances == (StepDone /\ ~Jumps /\ ~Ends /\ ~Compensated) => pc = last.pc + 1

\* C15: a step executing DEFUSE or EXPLODE leaves pc unchanged, in the sparse-map
\* variant and in the array variant alike; every other opcode that does not jump
\* and is not a two-operand COPY with pc >= target sets pc to pc + 1.
C15_Original ==
    /\ (StepDone /\ Ends) => pc = last.pc
    /\ Advances

\* The sparse-map variant alone holds pc on DEFUSE and EXPLODE
C15_MapHolds == (StepDone /\ Ends /\ variant = "map") => pc = last.pc

\* The array variant advances pc on DEFUSE and EXPLODE
C15_ArrayAdvances == (StepDone /\ Ends /\ variant = "array") => pc = last.pc + 1

-----------------------------------------------------------------------------
(* Game status (both variants).                                            *)

\* The status a handler's step() call acts on: the Step button sets running
\* before it calls step(), every other handler leaves the status it found
ActsOn(kind, status) == IF kind = "manualStep" THEN "running" ELSE status

\* What takes the status from one value to another
StatusEdge ==
    \/ gameStatus' = gameStatus
    \/ /\ gameStatus' = "waiting"
       /\ IsReset(last'.kind)
    \/ /\ gameStatus = "waiting"
       /\ gameStatus' = "running"
       /\ last'.kind \in {"run", "manualStep"}
    \/ /\ ActsOn(last'.kind, gameStatus) = "running"
       /\ gameStatus' = "won"
       /\ last'.kind \in {"timerStep", "manualStep"}
       /\ last'.executed
       /\ last'.instr.op = "DEFUSE"
    \/ /\ ActsOn(last'.kind, gameStatus) = "running"
       /\ gameStatus' = "lost"
       /\ last'.kind \in {"timerStep", "manualStep"}
       /\ \/ last'.executed /\ last'.instr.op = "EXPLODE"
          \/ variant = "array" /\ ~last'.executed /\ fault' = "none"

\* A step() call is made on status running only and never leaves status waiting
StepsWhileRunning ==
    last'.kind \in {"timerStep", "manualStep"} =>
        /\ ActsOn(last'.kind, gameStatus) = "running"
        /\ gameStatus' # "waiting"

\* C16: the status only changes from waiting to running (the first Step, or Run),
\* from running to won (a DEFUSE executed), from running to lost (an EXPLODE
\* executed, or pc outside the array in the array variant) and from any status to
\* waiting (a reset); no step is executed on status waiting, and the status never
\* passes from won to lost or back without a reset.
C16_StatusEdges == [][StatusEdge /\ StepsWhileRunning]_vars

\* The Step button pressed on status waiting executed DEFUSE: the handler set
\* running and its step() call set won
C16_Witness ==
    /\ last.kind = "manualStep"
    /\ last.gameStatus = "waiting"
    /\ last.instr.op = "DEFUSE"
    /\ gameStatus = "won"

\* The game was lost by leaving the array while auto-run was on
C16_LeftArray ==
    /\ variant = "array"
    /\ last.kind = "timerStep"
    /\ ~last.executed
    /\ last.gameStatus = "running"
    /\ gameStatus = "lost"

-----------------------------------------------------------------------------
(* Missing and malformed operands (both variants).                         *)

\* The step that ran last executed an instruction lacking an operand it reads
MissingOperand ==
    /\ StepDone
    /\ \/ last.instr.op = "ADD" /\ Length(last.instr.args) < 3
       \/ last.instr.op \in {"JUMP", "JMP"} /\ Length(last.instr.args) < 1
       \/ last.instr.op \in {"BEQ", "BNE", "BGT", "BLT"} /\ Length(last.instr.args) < 3

\* C17: getValue never fails, so that a step on an instruction with missing or
\* malformed operands completes normally and no step() call reaches an error.
C17_Original == fault = "none"

\* A step of the sparse-map variant on an instruction lacking an operand
C17_MapMissing == variant = "map" /\ MissingOperand /\ last.instr.op = "JUMP" /\ pc = 0

-----------------------------------------------------------------------------
(* Operands read after the increment of T (both variants).                 *)

\* The relation rel holds between l and r
Compare(rel, l, r) ==
    CASE rel = "<" -> l < r
      [] rel = ">" -> l > r
      [] rel = "=" -> l = r
      [] rel = "!=" -> l # r
      [] OTHER -> FALSE

\* The relation the operator operand of the executed CJUMP names, if any
CjumpRel ==
    LET operator == ToStr(Arg(last.instr, 1))
    IN  CASE operator = <<"<">> -> "<"
          [] operator = <<">">> -> ">"
          [] operator = <<"=">> -> "="
          [] operator = <<"!", "=">> -> "!="
          [] OTHER -> "none"

\* The relation the executed branch opcode of the array variant tests
BranchRel ==
    CASE last.instr.op = "BLT" -> "<"
      [] last.instr.op = "BGT" -> ">"
      [] last.instr.op = "BEQ" -> "="
      [] last.instr.op = "BNE" -> "!="
      [] OTHER -> "none"

\* The step that ran last executed a CJUMP (sparse-map variant)
CjumpDone == StepDone /\ variant = "map" /\ last.instr.op = "CJUMP"

\* The step that ran last executed a branch of the array variant on a register
\* that is present
BranchDone ==
    /\ StepDone
    /\ variant = "array"
    /\ BranchRel # "none"
    /\ ToStr(Arg(last.instr, 0)) \in DOMAIN last.registers

\* One of the operands compared is register T
ComparesT(i, j) == RegT \in {ToStr(Arg(last.instr, i)), ToStr(Arg(last.instr, j))}

\* C18: operands are read with T already incremented: ADD(src1, src2, dest)
\* sets dest to resolve(src1) + resolve(src2) where T reads old T + 1 (ADD T 0 B
\* gives B = old T + 1) and leaves every register other than dest and T as it
\* was; a comparison with T as operand compares old T + 1.
C18_PostIncrement ==
    /\ (StepDone /\ last.instr.op = "ADD") =>
           LET dest == ToStr(Arg(last.instr, 2))
           IN  /\ DOMAIN registers = DOMAIN last.registers \cup {dest}
               /\ registers[dest] = Resolved(0) + Resolved(1)
               /\ \A k \in {0, 1} :
                      ToStr(Arg(last.instr, k)) = RegT => Resolved(k) = last.registers[RegT] + 1
               /\ dest # RegT => registers[RegT] = last.registers[RegT] + 1
               /\ \A r \in DOMAIN last.registers \ {dest, RegT} :
                      registers[r] = last.registers[r]
    /\ (CjumpDone /\ ComparesT(0, 2)) =>
           /\ \A k \in {0, 2} :
                  ToStr(Arg(last.instr, k)) = RegT => Resolved(k) = last.registers[RegT] + 1
           /\ pc = (IF Compare(CjumpRel, Resolved(0), Resolved(2)) THEN Resolved(3)
                    ELSE last.pc + 1)
    /\ (BranchDone /\ ComparesT(0, 1) /\ rawTarget(last.instr).num) =>
           /\ \A k \in {0, 1} :
                  ToStr(Arg(last.instr, k)) = RegT => Resolved(k) = last.registers[RegT] + 1
           /\ pc = (IF Compare(BranchRel, Resolved(0), Resolved(1))
                    THEN rawTarget(last.instr).n ELSE last.pc + 1)

\* An ADD that read T into another register
C18_Witness ==
    /\ StepDone
    /\ last.instr.op = "ADD"
    /\ ToStr(Arg(last.instr, 0)) = RegT
    /\ ToStr(Arg(last.instr, 2)) = RegB
    /\ Arg(last.instr, 1) = Num(0)
    /\ registers[RegB] = last.registers[RegT] + 1
    /\ registers[RegB] # last.registers[RegB]

\* A CJUMP on T whose outcome differs between old T and old T + 1
C18_CjumpOnT ==
    /\ CjumpDone
    /\ ToStr(Arg(last.instr, 0)) = RegT
    /\ Compare(CjumpRel, last.registers[RegT] + 1, Resolved(2))
    /\ ~Compare(CjumpRel, last.registers[RegT], Resolved(2))
    /\ pc = Resolved(3)
    /\ pc # last.pc + 1

-----------------------------------------------------------------------------
(* Jump targets (both variants).                                           *)

\* The condition of the executed branch of the array variant: the register is
\* read by its name, and a register that is absent differs from every value
BranchHolds ==
    LET reg == ToStr(Arg(last.instr, 0))
    IN  IF reg \in DOMAIN last.registers
        THEN Compare(BranchRel, Incremented[reg], Resolved(1))
        ELSE BranchRel = "!="

\* pc is the target operand as written: that number, or no number at all
RawTarget(target) == pcNumeric = target.num /\ (target.num => pc = target.n)

\* C19: in the sparse-map variant JUMP(target) sets pc to the target resolved by
\* getValue (a register name jumps to the register's value) and CJUMP sets pc to
\* its resolved target exactly when its condition holds, the operator being one
\* of <, >, =, !=, and to pc + 1 otherwise; in the array variant JMP, BEQ, BNE,
\* BGT, BLT use the target operand as written, not resolved through registers.
C19_JumpTargets ==
    /\ (StepDone /\ variant = "map" /\ last.instr.op = "JUMP") => pc = Resolved(0)
    /\ CjumpDone =>
           pc = (IF Compare(CjumpRel, Resolved(0), Resolved(2)) THEN Resolved(3)
                 ELSE last.pc + 1)
    /\ (StepDone /\ variant = "map") => pcNumeric
    /\ (StepDone /\ variant = "array" /\ last.instr.op = "JMP") =>
           RawTarget(Arg(last.instr, 0))
    /\ (StepDone /\ variant = "array" /\ BranchRel # "none") =>
           IF BranchHolds THEN RawTarget(Arg(last.instr, 2))
           ELSE pcNumeric /\ pc = last.pc + 1

\* A JUMP through a register to a line other than the next one
C19_Witness ==
    /\ StepDone
    /\ variant = "map"
    /\ last.instr.op = "JUMP"
    /\ ~Arg(last.instr, 0).num
    /\ ToStr(Arg(last.instr, 0)) \in DOMAIN last.registers
    /\ pc = last.registers[ToStr(Arg(last.instr, 0))]
    /\ pc \notin {0, last.pc + 1}

\* A CJUMP taken to a target named by a register
C19_CjumpRegister ==
    /\ CjumpDone
    /\ ToStr(Arg(last.instr, 3)) \in DOMAIN last.registers
    /\ Compare(CjumpRel, Resolved(0), Resolved(2))
    /\ pc = Resolved(3)
    /\ pc # last.pc + 1

\* A branch of the array variant taken to a target named by a register
C19_BranchRegister ==
    /\ StepDone
    /\ variant = "array"
    /\ BranchRel # "none"
    /\ BranchHolds
    /\ ToStr(Arg(last.instr, 2)) \in DOMAIN last.registers
    /\ ~pcNumeric

-----------------------------------------------------------------------------
(* The program store (src/unnamed/part_000).                               *)

\* The handler that ran last executed a COPY
AnyCopyDone == CopyDone(1) \/ CopyDone(2)

\* Every line of the store before the step is in the store, operands and all,
\* at the line it had or one line further
LinesIntact ==
    \A k \in DOMAIN last.program :
        \/ k \in DOMAIN program /\ program[k] = last.program[k]
        \/ k + 1 \in DOMAIN program /\ program[k + 1] = last.program[k]

\* C20: the program store is changed by a step executing COPY and by nothing
\* else short of a reset: every other step leaves it identical, a COPY step adds
\* exactly one line, the number of lines never decreases between resets, and no
\* step rewrites the operands (jump targets included) of a stored instruction.
C20_StoreChanges ==
    (variant = "map" /\ ~IsReset(last.kind) /\ last.kind # "mount") =>
        /\ ~AnyCopyDone => program = last.program
        /\ AnyCopyDone =>
               Cardinality(DOMAIN program) = Cardinality(DOMAIN last.program) + 1
        /\ Cardinality(DOMAIN program) >= Cardinality(DOMAIN last.program)
        /\ LinesIntact

\* A COPY inserted a line at or before the numeric target of a stored jump, and
\* the jump kept its target
C20_Witness ==
    /\ AnyCopyDone
    /\ \E tgt \in DOMAIN program :
           /\ InsertedAt(tgt, program[tgt])
           /\ \E k \in DOMAIN last.program :
                  LET instr == last.program[k]
                      i == IF instr.op = "JUMP" THEN 0 ELSE 3
                  IN  /\ instr.op \in {"JUMP", "CJUMP"}
                      /\ i \in DOMAIN instr.args
                      /\ instr.args[i].num
                      /\ instr.args[i].n >= tgt
                      /\ program[IF k >= tgt THEN k + 1 ELSE k] = instr

-----------------------------------------------------------------------------
(* History keys (both variants).                                           *)

\* The level's program has an ADD whose destination is T
WritesT == \E k \in DOMAIN level.program : AddToT(level.program[k])

\* The step that ran last executed TTRAVEL
TravelDone == StepDone /\ last.instr.op = "TTRAVEL"

\* C21: when the level's initial T is 0, every history entry is filed under its
\* own time: history[k].T = k for every key k; hence a TTRAVEL step ends with
\* T = old T + 1, and in a program that never writes T through ADD a TTRAVEL
\* step finds no entry and only increments T.
C21_HistoryKeys ==
    level.initialRegisters[RegT] = 0 =>
        /\ \A k \in DOMAIN history : history[k][RegT] = k
        /\ TravelDone => registers[RegT] = last.registers[RegT] + 1
        /\ (TravelDone /\ ~WritesT) =>
               /\ last.registers[RegT] + 1 \notin DOMAIN last.history
               /\ registers = [r \in DOMAIN last.registers |->
                                  IF r = RegT THEN last.registers[r] + 1
                                  ELSE last.registers[r]]

\* A TTRAVEL that restored an entry recorded several steps earlier, in a history
\* that has been overwritten since
C21_Witness ==
    /\ TravelDone
    /\ WritesT
    /\ last.registers[RegT] + 1 \in DOMAIN last.history
    /\ registers # last.registers
    /\ registers[RegT] = last.registers[RegT] + 1
    /\ Cardinality(DOMAIN history) >= 3
    /\ nsteps > Cardinality(DOMAIN history)

\* A TTRAVEL in a program that never writes T
C21_NoOp == TravelDone /\ ~WritesT

-----------------------------------------------------------------------------
(* The doubling level (both variants).                                     *)

\* The constant of the level's guard on T
TGuard == 40

\* The values of A that defuse the doubling level
Defusing == {16, 32}

C22_Won16 == gameStatus = "won" /\ registers[RegA] = 16 /\ variant = "map"
C22_Won32 == gameStatus = "won" /\ registers[RegA] = 32 /\ variant = "array"

-----------------------------------------------------------------------------
(* What runs after a two-operand COPY (src/unnamed/part_000).              *)

\* Line k holds the same in the store as line j held before the step, or both
\* are absent
SameLine(k, j) ==
    IF j \in DOMAIN last.program
    THEN k \in DOMAIN program /\ program[k] = last.program[j]
    ELSE k \notin DOMAIN program

\* C23: after a two-operand COPY step at line pc with target tgt: if tgt <= pc,
\* the COPY itself sits at line pc + 1 and the new pc, pc + 2, holds what line
\* pc + 1 held before the step (or nothing if that line was absent); if
\* tgt = pc + 1, the new pc names the inserted copy; if tgt > pc + 1, the new pc
\* names line pc + 1, which did not move.
C23_AfterCopy ==
    CopyDone(2) =>
        LET tgt == Resolved(1)
        IN  /\ tgt <= last.pc =>
                   /\ last.pc + 1 \in DOMAIN program
                   /\ program[last.pc + 1] = last.instr
                   /\ pc = last.pc + 2
                   /\ SameLine(pc, last.pc + 1)
            /\ tgt = last.pc + 1 =>
                   /\ pc = last.pc + 1
                   /\ program[pc] = Copied(Resolved(0))
            /\ tgt > last.pc + 1 =>
                   /\ pc = last.pc + 1
                   /\ SameLine(pc, last.pc + 1)

\* A two-operand COPY that inserted at its own line and is followed by a line
\* that is present and is not the copy
C23_Witness ==
    /\ CopyDone(2)
    /\ Resolved(1) = last.pc
    /\ last.pc + 1 \in DOMAIN last.program
    /\ program[pc] = last.program[last.pc + 1]
    /\ program[pc] # program[Resolved(1)]

\* The other cases: inserted above with the next line absent, just below, further below
C23_Absent == CopyDone(2) /\ Resolved(1) < last.pc /\ pc \notin DOMAIN program
C23_JustBelow == CopyDone(2) /\ Resolved(1) = last.pc + 1
C23_Further == CopyDone(2) /\ Resolved(1) > last.pc + 1 /\ pc \in DOMAIN program

-----------------------------------------------------------------------------
(* Timed steps (both variants).                                            *)

\* The render state of the component as it is now
Current == [registers |-> registers, pc |-> pc, pcNumeric |-> pcNumeric,
            program |-> program, history |-> history]

\* C24: at most one timed step is pending, and only while auto-run is on and the
\* status is running; the pending step reads the current registers, pc, program
\* and history, so each expiry executes one instruction on the current state; a
\* manual Step or a reset made while a timed step is pending turns auto-run off
\* and cancels it.
C24_TimedSteps ==
    /\ Cardinality(timers) <= 1
    /\ \A t \in timers : t = Current /\ isRunning /\ gameStatus = "running"
    /\ last.kind = "timerStep" =>
           /\ Cardinality(last.timers) = 1
           /\ \A t \in last.timers :
                  /\ t.registers = last.registers
                  /\ t.pc = last.pc
                  /\ t.program = last.program
                  /\ t.history = last.history
           /\ nsteps > 0
    /\ (last.kind = "manualStep" \/ IsReset(last.kind)) => (timers = {} /\ ~isRunning)

\* A manual Step pressed while a timed step was pending
C24_Witness ==
    /\ last.kind = "manualStep"
    /\ last.isRunning
    /\ last.timers # {}
    /\ timers = {}
    /\ Current # [registers |-> last.registers, pc |-> last.pc, pcNumeric |-> TRUE,
                  program |-> last.program, history |-> last.history]

\* A reset made while a timed step was pending, after timed steps had run
C24_ResetPending ==
    /\ IsReset(last.kind)
    /\ last.timers # {}
    /\ Cardinality(DOMAIN last.history) > 1
    /\ timers = {}

-----------------------------------------------------------------------------
(* Manual stepping (src/unnamed/part_000).                                 *)

\* The handler that ran last was the Step button of the sparse-map variant
ManualStepDone == variant = "map" /\ last.kind = "manualStep"

\* Auto-run is off and Run is not accepted
ManualMode == variant = "map" /\ ~isRunning /\ gameStatus # "waiting"

\* C25: in the sparse-map variant Run is accepted only while the status is
\* waiting, and a manual Step turns auto-run off and leaves the status running.
C25_Original == ManualStepDone => (~isRunning /\ gameStatus = "running")

\* The status a manual Step leaves: running, or won / lost when the instruction
\* it executed was DEFUSE / EXPLODE
AfterManualStep ==
    ManualStepDone =>
        /\ ~isRunning
        /\ timers = {}
        /\ gameStatus = (IF last.instr.op = "DEFUSE" THEN "won"
                         ELSE IF last.instr.op = "EXPLODE" THEN "lost"
                         ELSE "running")

\* Run is accepted on status waiting only; once auto-run is off and the status is
\* not waiting, the next handler is a manual Step, which keeps it so, or a reset
ManualOnly ==
    /\ (variant = "map" /\ last'.kind = "run") => gameStatus = "waiting"
    /\ ManualMode =>
           \/ IsReset(last'.kind) /\ gameStatus' = "waiting"
           \/ /\ last'.kind = "manualStep"
              /\ ~isRunning'
              /\ gameStatus' # "waiting"
              /\ timers' = {}

\* C25 (amended): Run is accepted only while the status is waiting; a manual
\* Step turns auto-run off and leaves the status running, or won / lost when it
\* executed DEFUSE / EXPLODE; from then on auto-run is never started and the
\* program advances through manual Steps only, until a reset.
C25_ManualOnly == []AfterManualStep /\ [][ManualOnly]_vars

\* A second manual Step in a game whose auto-run had been stopped by the first
C25_Witness ==
    /\ ManualStepDone
    /\ ~last.isRunning
    /\ last.gameStatus = "running"
    /\ last.timers = {}
    /\ gameStatus = "running"
    /\ \E k \in DOMAIN history : k >= 3

\* A manual Step that stopped auto-run
C25_StopsAutoRun == ManualStepDone /\ last.isRunning /\ last.timers # {} /\ ~isRunning
====
